---------------------------- MODULE Spec2Model ----------------------------
(***************************************************************************)
(* A model of the Gitter calculator bot of src/index.js: the Calculator    *)
(* object (read, shuntingYard, evaluateRPN and the token buffer they share) *)
(* and the 'message' handler that runs them for every "calc ..." message.  *)
(*                                                                         *)
(* A JavaScript string is modelled as a sequence of one-character strings, *)
(* so "2+a" is <<"2", "+", "a">>.  A token is such a string.               *)
(***************************************************************************)
EXTENDS Integers, Sequences, FiniteSets, TLC

(***************************************************************************)
(* Bounds of the model.                                                    *)
(***************************************************************************)
\* Length of the expressions enumerated exhaustively while the token buffer
\* is empty.
MaxFresh == 4
\* Tokens already in the buffer plus characters of the incoming expression,
\* for the expressions enumerated exhaustively while it is not.
MaxLen == 3
\* Length of the token buffers enumerated exhaustively as shuntingYard's
\* input.
MaxTokens == 4
\* Largest numerator or denominator the evaluator's numbers are tracked
\* exactly for; a finite number beyond it is the abstract value Real.
Limit == 30000

(***************************************************************************)
(* Characters and strings.                                                 *)
(***************************************************************************)
Digits == {"0", "1", "2", "3", "4", "5", "6", "7", "8", "9"}

\* operators = '+-*/()^' (a string, searched with indexOf)
operators == <<"+", "-", "*", "/", "(", ")", "^">>

\* The characters the exhaustively enumerated expressions are made of: two
\* digits, the decimal point, every operator and parenthesis, and one
\* character that read does not recognise.
Alphabet == {"2", "3", ".", "+", "-", "*", "/", "(", ")", "^", "a"}

\* 'calc '
Calc == <<"c", "a", "l", "c", " ">>

\* String.prototype.indexOf: the 0-based index of the first occurrence of
\* needle in hay, -1 when there is none (the empty needle is found at 0).
RECURSIVE IndexFrom(_, _, _)
IndexFrom(hay, needle, i) ==
    IF i + Len(needle) > Len(hay) THEN -1
    ELSE IF SubSeq(hay, i + 1, i + Len(needle)) = needle THEN i
    ELSE IndexFrom(hay, needle, i + 1)

IndexOf(hay, needle) == IndexFrom(hay, needle, 0)

\* String.prototype.replace(pattern, '') with a string pattern: the first
\* occurrence is removed.
RemoveFirst(s, pattern) ==
    LET i == IndexOf(s, pattern) IN
    IF i = -1 THEN s
    ELSE SubSeq(s, 1, i) \o SubSeq(s, i + Len(pattern) + 1, Len(s))

\* String.prototype.replace(/ /g, ''): every space is removed.
RECURSIVE StripSpaces(_)
StripSpaces(s) ==
    IF s = <<>> THEN <<>>
    ELSE IF Head(s) = " " THEN StripSpaces(Tail(s))
    ELSE <<Head(s)>> \o StripSpaces(Tail(s))

(***************************************************************************)
(* Calculator.isInteger, applied by read to one character.                 *)
(***************************************************************************)
isInteger(c) == c \in Digits

(***************************************************************************)
(* Calculator.read                                                         *)
(***************************************************************************)
\* A variant of the test of line 156 that forgets the empty buffer: a '-' is
\* a sign only after an operator or parenthesis token.
NegativeSignAfterToken(token, toks) ==
    /\ token = <<"-">>
    /\ Len(toks) # 0
    /\ IndexOf(operators, toks[Len(toks)]) # -1

\* The test of line 156: the '-' held in token is the sign of a number.
NegativeSign(token, toks) ==
    /\ token = <<"-">>
    /\ \/ Len(toks) = 0
       \/ IndexOf(operators, toks[Len(toks)]) # -1

\* A variant of the test of line 168 that takes every remaining character
\* for an operator.
IsOperatorCharLax(c) == TRUE

\* A variant of the test of line 168 that takes the letters of 'calc' for
\* operators as well.
IsOperatorCharOrLetter(c) ==
    IndexOf(operators, <<c>>) # -1 \/ c \in {"c", "a", "l"}

\* The test of line 168: the character is one of operators.
IsOperatorChar(c) == IndexOf(operators, <<c>>) # -1

\* A variant of lines 152-154 that appends every decimal point.
WithPointAlways(token) == Append(token, ".")

\* Lines 152-154: the literal in progress after a decimal point was read;
\* the point is appended unless the literal holds one already.
WithPoint(token) ==
    IF IndexOf(token, <<".">>) = -1 THEN Append(token, ".") ELSE token

\* The loop of read from character i on (1-based), token being the literal
\* in progress and toks this.tokens.  thrown tells whether the loop ended
\* in the ExpressionFormatException; tokens is this.tokens at that moment.
RECURSIVE ReadLoop(_, _, _, _)
ReadLoop(input, i, token, toks) ==
    IF i > Len(input)
    THEN [thrown |-> FALSE,
          tokens |-> IF token # <<>> THEN Append(toks, token) ELSE toks]
    ELSE LET c == input[i] IN
         IF c = "."
         THEN ReadLoop(input, i + 1, WithPoint(token), toks)
         ELSE IF isInteger(c)
         THEN IF NegativeSign(token, toks)
              THEN ReadLoop(input, i + 1, Append(token, c), toks)
              ELSE IF IndexOf(operators, token) = -1
              THEN ReadLoop(input, i + 1, Append(token, c), toks)
              ELSE ReadLoop(input, i + 1, <<c>>,
                            IF token # <<>> THEN Append(toks, token) ELSE toks)
         ELSE IF IsOperatorChar(c)
         THEN ReadLoop(input, i + 1, <<c>>,
                       IF token # <<>> THEN Append(toks, token) ELSE toks)
         ELSE [thrown |-> TRUE, tokens |-> toks]

\* A variant of read whose loop starts one character late.
readFromSecond(input, toks) == ReadLoop(input, 2, <<>>, toks)

read(input, toks) == ReadLoop(input, 1, <<>>, toks)

(***************************************************************************)
(* JavaScript values.  The evaluator's stack holds token strings, numbers, *)
(* NaN and undefined.  A number is an exact fraction n/d in lowest terms   *)
(* with d > 0 (negative zero is not told apart from zero), an infinity, or *)
(* Real: a Number whose value the model does not track (a fraction with a  *)
(* numerator or denominator beyond Limit, or an irrational power).  Every  *)
(* value is a record of the same four fields.                              *)
(***************************************************************************)
Str(t) == [k |-> "str", n |-> 0, d |-> 1, s |-> t]
Frac(n, d) == [k |-> "num", n |-> n, d |-> d, s |-> <<>>]
Inf(sign) == [k |-> "inf", n |-> sign, d |-> 1, s |-> <<>>]
NaN == [k |-> "nan", n |-> 0, d |-> 1, s |-> <<>>]
Real == [k |-> "real", n |-> 0, d |-> 1, s |-> <<>>]
Undefined == [k |-> "undefined", n |-> 0, d |-> 1, s |-> <<>>]

Abs(x) == IF x < 0 THEN -x ELSE x
Sign(x) == IF x < 0 THEN -1 ELSE IF x = 0 THEN 0 ELSE 1

RECURSIVE GCD(_, _)
GCD(a, b) == IF b = 0 THEN a ELSE GCD(b, a % b)

\* The number n/d (d # 0) in lowest terms, Real when beyond Limit.
Num(n, d) ==
    LET g == GCD(Abs(n), Abs(d))
        nn == (Sign(d) * n) \div g
        dd == Abs(d) \div g
    IN  IF Abs(nn) > Limit \/ dd > Limit THEN Real ELSE Frac(nn, dd)

(***************************************************************************)
(* Numeric strings.                                                        *)
(***************************************************************************)
DigitVal(c) == CHOOSE v \in 0..9 : <<"0", "1", "2", "3", "4", "5", "6", "7", "8", "9">>[v + 1] = c

\* s without a leading sign.
Unsigned(s) == IF s # <<>> /\ s[1] \in {"+", "-"} THEN Tail(s) ELSE s

\* isNaN(parseFloat(s)): parseFloat reads the longest numeric prefix and
\* gives NaN when there is none, that is unless the string starts, after an
\* optional sign, with a digit or with a point and a digit.
parseFloatIsNaN(s) ==
    LET u == Unsigned(s) IN
    ~ /\ Len(u) >= 1
      /\ \/ u[1] \in Digits
         \/ u[1] = "." /\ Len(u) >= 2 /\ u[2] \in Digits

\* u is digits with at most one point and at least one digit.
IsDecimalLiteral(u) ==
    /\ \A i \in 1..Len(u) : u[i] \in Digits \cup {"."}
    /\ Cardinality({i \in 1..Len(u) : u[i] = "."}) <= 1
    /\ \E i \in 1..Len(u) : u[i] \in Digits

\* The digits of u read as a fraction: acc is the value of the digits read,
\* scale the power of ten the digits after the point have added.
RECURSIVE DecimalValue(_, _, _, _, _)
DecimalValue(u, i, acc, scale, seenPoint) ==
    IF acc > Limit \/ scale > Limit THEN Real
    ELSE IF i > Len(u) THEN Num(acc, scale)
    ELSE IF u[i] = "." THEN DecimalValue(u, i + 1, acc, scale, TRUE)
    ELSE DecimalValue(u, i + 1, acc * 10 + DigitVal(u[i]),
                      IF seenPoint THEN scale * 10 ELSE scale, seenPoint)

Neg(a) ==
    CASE a.k = "num" -> Frac(-a.n, a.d)
      [] a.k = "inf" -> Inf(-a.n)
      [] OTHER -> a

\* ToNumber of a string: 0 for the empty string, the value of a signed
\* decimal literal, NaN for anything else.
StringToNumber(s) ==
    IF s = <<>> THEN Frac(0, 1)
    ELSE IF ~IsDecimalLiteral(Unsigned(s)) THEN NaN
    ELSE LET v == DecimalValue(Unsigned(s), 1, 0, 1, FALSE) IN
         IF s[1] = "-" THEN Neg(v) ELSE v

\* ToNumber of a value: undefined is NaN.
ToNumber(v) ==
    CASE v.k = "str" -> StringToNumber(v.s)
      [] v.k = "undefined" -> NaN
      [] OTHER -> v

\* isFinite(s) for a string s.
isFinite(s) == StringToNumber(s).k \in {"num", "real"}

(***************************************************************************)
(* Calculator.isNumber                                                     *)
(***************************************************************************)
isNumber(input) == ~parseFloatIsNaN(input) /\ isFinite(input)

(***************************************************************************)
(* Number arithmetic (the operators * / - + and Math.pow on Numbers).      *)
(* An operation on Real gives Real, unless the other operand is NaN.       *)
(***************************************************************************)
IsZero(a) == a.k = "num" /\ a.n = 0

\* The sign of a number or an infinity.
SignOf(a) == IF a.k = "inf" THEN a.n ELSE Sign(a.n)

NumAdd(a, b) ==
    CASE a.k = "nan" \/ b.k = "nan" -> NaN
      [] a.k = "real" \/ b.k = "real" -> Real
      [] a.k = "inf" /\ b.k = "inf" -> IF a.n = b.n THEN a ELSE NaN
      [] a.k = "inf" -> a
      [] b.k = "inf" -> b
      [] OTHER -> Num(a.n * b.d + b.n * a.d, a.d * b.d)

NumSub(a, b) == NumAdd(a, Neg(b))

NumMul(a, b) ==
    CASE a.k = "nan" \/ b.k = "nan" -> NaN
      [] a.k = "real" \/ b.k = "real" -> Real
      [] a.k = "inf" \/ b.k = "inf" ->
            IF IsZero(a) \/ IsZero(b) THEN NaN ELSE Inf(SignOf(a) * SignOf(b))
      [] OTHER -> Num(a.n * b.n, a.d * b.d)

NumDiv(a, b) ==
    CASE a.k = "nan" \/ b.k = "nan" -> NaN
      [] a.k = "real" \/ b.k = "real" -> Real
      [] a.k = "inf" /\ b.k = "inf" -> NaN
      [] a.k = "inf" -> Inf(a.n * (IF SignOf(b) < 0 THEN -1 ELSE 1))
      [] b.k = "inf" -> Frac(0, 1)
      [] IsZero(b) -> IF IsZero(a) THEN NaN ELSE Inf(SignOf(a))
      [] OTHER -> Num(a.n * b.d, a.d * b.n)

\* acc * a^e for a natural e, by repeated multiplication; it stops as soon
\* as the product is no longer tracked.
RECURSIVE PowAcc(_, _, _)
PowAcc(a, e, acc) ==
    IF e = 0 \/ acc.k = "real" THEN acc
    ELSE PowAcc(a, e - 1, NumMul(acc, a))

\* a^e for fractions a and e.
FracPow(a, e) ==
    CASE a.n = a.d -> Frac(1, 1)
      [] e.d # 1 -> IF a.n < 0 THEN NaN
                    ELSE IF a.n = 0 THEN (IF e.n > 0 THEN Frac(0, 1) ELSE Inf(1))
                    ELSE Real
      [] a.n = 0 -> IF e.n > 0 THEN Frac(0, 1) ELSE Inf(1)
      [] a.n = -a.d -> IF e.n % 2 = 0 THEN Frac(1, 1) ELSE Frac(-1, 1)
      [] e.n > 0 -> PowAcc(a, e.n, Frac(1, 1))
      [] OTHER -> PowAcc(Num(a.d, a.n), -e.n, Frac(1, 1))

\* Math.pow(a, b) on Numbers.
NumPow(a, b) ==
    CASE b.k = "nan" -> NaN
      [] IsZero(b) -> Frac(1, 1)
      [] a.k = "nan" -> NaN
      [] a.k = "real" \/ b.k = "real" -> Real
      [] b.k = "inf" ->
            IF a.k = "inf" \/ Abs(a.n) > a.d
            THEN (IF b.n > 0 THEN Inf(1) ELSE Frac(0, 1))
            ELSE IF Abs(a.n) = a.d THEN NaN
            ELSE (IF b.n > 0 THEN Frac(0, 1) ELSE Inf(1))
      [] a.k = "inf" ->
            IF b.n < 0 THEN Frac(0, 1)
            ELSE IF a.n < 0 /\ b.d = 1 /\ b.n % 2 = 1 THEN Inf(-1)
            ELSE Inf(1)
      [] OTHER -> FracPow(a, b)

(***************************************************************************)
(* Calculator.shuntingYard                                                 *)
(***************************************************************************)
\* precedence = {'+': 2, '-': 2, '*': 3, '/': 3, '^': 4}
precedence ==
    (<<"+">> :> 2) @@ (<<"-">> :> 2) @@ (<<"*">> :> 3) @@ (<<"/">> :> 3) @@ (<<"^">> :> 4)

\* associativity = {'+': 'left', ..., '^': 'right'}
associativity ==
    (<<"+">> :> "left") @@ (<<"-">> :> "left") @@ (<<"*">> :> "left")
        @@ (<<"/">> :> "left") @@ (<<"^">> :> "right")

\* /^[-+*\/\^]$/g.test(token)
IsOperatorToken(token) == Len(token) = 1 /\ token[1] \in {"-", "+", "*", "/", "^"}

\* A variant of the test of lines 63-64 that ignores associativity.
PopsBeforeLeftOnly(token, o2) ==
    /\ o2 \in DOMAIN precedence
    /\ precedence[token] <= precedence[o2]

\* The test of lines 63-64 for the operator token and the stack entry o2
\* (a comparison with the undefined precedence of '(' is false).
PopsBefore(token, o2) ==
    /\ o2 \in DOMAIN precedence
    /\ \/ associativity[token] = "left" /\ precedence[token] <= precedence[o2]
       \/ associativity[token] = "right" /\ precedence[token] < precedence[o2]

\* The for loop of lines 60-70: operators are moved from the top of the
\* stack to the output queue while PopsBefore holds.
RECURSIVE PopOperators(_, _, _)
PopOperators(token, outputQueue, operatorStack) ==
    IF operatorStack # <<>> /\ PopsBefore(token, operatorStack[Len(operatorStack)])
    THEN PopOperators(token,
                      Append(outputQueue, operatorStack[Len(operatorStack)]),
                      SubSeq(operatorStack, 1, Len(operatorStack) - 1))
    ELSE [out |-> outputQueue, stack |-> operatorStack]

\* A variant of the loop of line 79 that moves nothing.
PopToParenNone(outputQueue, operatorStack) ==
    [out |-> outputQueue, stack |-> operatorStack]

\* The while loop of line 79: on ')' operators are moved to the output queue
\* until the stack is empty or '(' is on top.
RECURSIVE PopToParen(_, _)
PopToParen(outputQueue, operatorStack) ==
    IF operatorStack # <<>> /\ operatorStack[Len(operatorStack)] # <<"(">>
    THEN PopToParen(Append(outputQueue, operatorStack[Len(operatorStack)]),
                    SubSeq(operatorStack, 1, Len(operatorStack) - 1))
    ELSE [out |-> outputQueue, stack |-> operatorStack]

\* Array.prototype.pop on the stack: the stack without its last element
\* (an empty stack stays empty).
Popped(stack) == IF stack = <<>> THEN <<>> ELSE SubSeq(stack, 1, Len(stack) - 1)

\* A variant of the drain of lines 89-93 that moves the top element only.
ReversedTop(stack) == IF stack = <<>> THEN <<>> ELSE <<stack[Len(stack)]>>

\* The stack's elements from the top down (lines 89-93).
RECURSIVE Reversed(_)
Reversed(stack) ==
    IF stack = <<>> THEN <<>>
    ELSE <<stack[Len(stack)]>> \o Reversed(Popped(stack))

\* The while loop of line 51 and the final drain: toks is this.tokens.  The
\* result holds the returned output queue and what is left of this.tokens.
RECURSIVE YardLoop(_, _, _)
YardLoop(toks, outputQueue, operatorStack) ==
    IF Len(toks) = 0
    THEN [out |-> outputQueue \o Reversed(operatorStack), tokens |-> toks]
    ELSE LET token == Head(toks)
             rest == Tail(toks)
         IN  IF isNumber(token)
             THEN YardLoop(rest, Append(outputQueue, token), operatorStack)
             ELSE IF IsOperatorToken(token)
             THEN LET p == PopOperators(token, outputQueue, operatorStack)
                  IN  YardLoop(rest, p.out, Append(p.stack, token))
             ELSE IF token = <<"(">>
             THEN YardLoop(rest, outputQueue, Append(operatorStack, token))
             ELSE IF token = <<")">>
             THEN LET p == PopToParen(outputQueue, operatorStack)
                  IN  YardLoop(rest, p.out, Popped(p.stack))
             ELSE YardLoop(rest, outputQueue, operatorStack)

\* A variant of shuntingYard that reads this.tokens without shifting it.
shuntingYardKeep(toks) == [out |-> YardLoop(toks, <<>>, <<>>).out, tokens |-> toks]

shuntingYard(toks) == YardLoop(toks, <<>>, <<>>)

(***************************************************************************)
(* Calculator.evaluateRPN                                                  *)
(***************************************************************************)
\* Array.prototype.pop's result: the last element, undefined when empty.
Top(stack) == IF stack = <<>> THEN Undefined ELSE stack[Len(stack)]

\* A variant of the switch of lines 117-133 that takes the operand popped
\* first for the left one.
ApplySwapped(op, first, second, stack) ==
    LET a == ToNumber(second)
        b == ToNumber(first)
    IN  CASE op = <<"*">> -> Append(stack, NumMul(a, b))
          [] op = <<"/">> -> Append(stack, NumDiv(a, b))
          [] op = <<"-">> -> Append(stack, NumSub(a, b))
          [] op = <<"+">> -> Append(stack, NumAdd(NumMul(a, Frac(1, 1)), NumMul(b, Frac(1, 1))))
          [] op = <<"^">> -> Append(stack, NumPow(a, b))
          [] OTHER -> stack

\* The switch of lines 117-133: the stack after the operator has been
\* applied to the popped operands (nothing is pushed for any other token).
Apply(op, first, second, stack) ==
    LET a == ToNumber(first)
        b == ToNumber(second)
    IN  CASE op = <<"*">> -> Append(stack, NumMul(a, b))
          [] op = <<"/">> -> Append(stack, NumDiv(a, b))
          [] op = <<"-">> -> Append(stack, NumSub(a, b))
          [] op = <<"+">> -> Append(stack, NumAdd(NumMul(a, Frac(1, 1)), NumMul(b, Frac(1, 1))))
          [] op = <<"^">> -> Append(stack, NumPow(a, b))
          [] OTHER -> stack

\* The for loop of line 110 from element i on (1-based).  The result holds
\* the stack when the loop ends and, as an observation of the run, whether
\* some pop of lines 114-115 found the stack empty.
RECURSIVE EvalLoop(_, _, _, _)
EvalLoop(input, i, stack, underflow) ==
    IF i > Len(input) THEN [stack |-> stack, underflow |-> underflow]
    ELSE IF isNumber(input[i])
    THEN EvalLoop(input, i + 1, Append(stack, Str(input[i])), underflow)
    ELSE LET second == Top(stack)
             first == Top(Popped(stack))
         IN  EvalLoop(input, i + 1,
                      Apply(input[i], first, second, Popped(Popped(stack))),
                      underflow \/ Len(stack) < 2)

EvalRun(input) == EvalLoop(input, 1, <<>>, FALSE)

\* return stack.pop() (line 137)
evaluateRPN(input) == Top(EvalRun(input).stack)

(***************************************************************************)
(* The text of a value in a string concatenation (line 216).               *)
(***************************************************************************)
DigitChar(d) == <<"0", "1", "2", "3", "4", "5", "6", "7", "8", "9">>[d + 1]

\* The decimal digits of the natural number n.
RECURSIVE NatText(_)
NatText(n) ==
    IF n < 10 THEN <<DigitChar(n)>> ELSE Append(NatText(n \div 10), DigitChar(n % 10))

\* The digits after the decimal point of r/d (0 <= r < d), the first three
\* of them at most.
RECURSIVE FractionText(_, _, _)
FractionText(r, d, k) ==
    IF r = 0 \/ k = 0 THEN <<>>
    ELSE <<DigitChar((10 * r) \div d)>> \o FractionText((10 * r) % d, d, k - 1)

\* The text of a value (its ToString): a token is its own text; a number is its sign, the
\* digits of its integer part and, when it has one, the point and the first
\* digits of its fraction; a number that is not tracked is '#', which stands
\* for digits that are not known.
ToText(v) ==
    CASE v.k = "str" -> v.s
      [] v.k = "num" ->
            (IF v.n < 0 THEN <<"-">> ELSE <<>>)
                \o NatText(Abs(v.n) \div v.d)
                \o (IF Abs(v.n) % v.d = 0 THEN <<>>
                    ELSE <<".">> \o FractionText(Abs(v.n) % v.d, v.d, 3))
      [] v.k = "inf" ->
            (IF v.n < 0 THEN <<"-">> ELSE <<>>)
                \o <<"I", "n", "f", "i", "n", "i", "t", "y">>
      [] v.k = "nan" -> <<"N", "a", "N">>
      [] v.k = "undefined" -> <<"u", "n", "d", "e", "f", "i", "n", "e", "d">>
      [] OTHER -> <<"#">>

(***************************************************************************)
(* The bot: one 'message' handler, run to completion for every message of  *)
(* the room.  The handler's steps are its calls, in order.                 *)
(***************************************************************************)
VARIABLES
    tokens,      \* Calculator.tokens
    pc,          \* the handler's position: "idle" between two messages
    expression,  \* the handler's local: the message text without 'calc '
    RPN,         \* the handler's local: shuntingYard's result
    result,      \* the handler's local: evaluateRPN's result
    error,       \* the message of the exception caught, <<>> when none
    sent,        \* the text room.send was called with, <<>> when not called
    replies,     \* the calls of room.send since the room's last own message
    tokens0      \* history: Calculator.tokens when the handler was entered

vars == <<tokens, pc, expression, RPN, result, error, sent, replies, tokens0>>

\* The message of the ExpressionFormatException of line 177:
\* 'Your expression contains unidentified character(s).'
FormatMessage ==
    << "Y", "o", "u", "r", " ", "e", "x", "p", "r", "e", "s", "s", "i",
       "o", "n", " ", "c", "o", "n", "t", "a", "i", "n", "s", " ", "u",
       "n", "i", "d", "e", "n", "t", "i", "f", "i", "e", "d", " ", "c",
       "h", "a", "r", "a", "c", "t", "e", "r", "(", "s", ")", "." >>

\* Expressions longer than MaxLen that the room may send as well.
Corpus ==
    { <<"2", "+", "3", "*", "4">>,
      <<"(", "2", "+", "3", ")", "*", "4">>,
      <<"8", "-", "3", "-", "2">>,
      <<"2", "^", "3", "^", "2">>,
      <<"-", "5", "+", "3">>,
      <<"5", "-", "-", "3">>,
      <<"2", "+", "a">>,
      <<"2", "*", "(", "3", "a">>,
      <<"(", "2", "+", "3">>,
      <<"2", "+", "3", ")">>,
      <<"(", "2", ")", "-", "3">>,
      <<"(", "8", "-", "2", ")", "/", "3">>,
      <<"5", "-", ".", "5">>,
      <<"2", "+", "*", "3">>,
      <<"1", ".", "2", ".", "3">>,
      <<"-", "1", "2", ".", "5">>,
      <<"1", "0", "7">>,
      <<"2", "/", "0">>,
      <<"2", " ", "+", " ", "3">>,
      <<"c", "a", "l", "c", " ", "2">> }

\* The expressions a message may carry while toks is in the token buffer:
\* every string over Alphabet of at most MaxFresh characters while the
\* buffer is empty, every one that keeps buffer plus input within MaxLen
\* while it is not, and the corpus while the buffer holds fewer than MaxLen
\* tokens.
Expressions(toks) ==
    UNION { [1..n -> Alphabet] :
              n \in 0..(IF toks = <<>> THEN MaxFresh ELSE MaxLen - Len(toks)) }
        \cup (IF Len(toks) < MaxLen THEN Corpus ELSE {})

\* Messages of the room that are no command.
OtherTexts == { <<"2", "+", "3">>, <<"h", "i", " ", "c", "a", "l", "c", " ", "2">>, <<>> }

Init ==
    /\ tokens = <<>>
    /\ pc = "idle"
    /\ expression = <<>>
    /\ RPN = <<>>
    /\ result = Undefined
    /\ error = <<>>
    /\ sent = <<>>
    /\ replies = 0
    /\ tokens0 = <<>>

\* events.on('message'), a text that starts with 'calc ' (lines 209-210).
Message(text) ==
    /\ pc = "idle"
    /\ IndexOf(text, Calc) = 0
    /\ expression' = RemoveFirst(text, Calc)
    /\ pc' = "read"
    /\ RPN' = <<>>
    /\ result' = Undefined
    /\ error' = <<>>
    /\ tokens0' = tokens
    /\ replies' = 0
    /\ UNCHANGED <<tokens, sent>>

\* events.on('message'), any other text: the handler does nothing.
Ignore(text) ==
    /\ pc = "idle"
    /\ IndexOf(text, Calc) # 0
    /\ UNCHANGED vars

\* Line 213: Calculator.read(expression.replace(/ /g, '')).
Read ==
    /\ pc = "read"
    /\ LET r == read(StripSpaces(expression), tokens) IN
        /\ tokens' = r.tokens
        /\ IF r.thrown
           THEN pc' = "catch" /\ error' = FormatMessage
           ELSE pc' = "shunt" /\ error' = error
    /\ UNCHANGED <<expression, RPN, result, sent, replies, tokens0>>

\* Line 214: RPN = Calculator.shuntingYard().
ShuntingYard ==
    /\ pc = "shunt"
    /\ LET y == shuntingYard(tokens) IN
        /\ RPN' = y.out
        /\ tokens' = y.tokens
    /\ pc' = "eval"
    /\ UNCHANGED <<expression, result, error, sent, replies, tokens0>>

\* Line 215: result = Calculator.evaluateRPN(RPN).
EvaluateRPN ==
    /\ pc = "eval"
    /\ result' = evaluateRPN(RPN)
    /\ pc' = "send"
    /\ UNCHANGED <<tokens, expression, RPN, error, sent, replies, tokens0>>

\* Line 216: room.send(expression + '=' + result).
Send ==
    /\ pc = "send"
    /\ sent' = expression \o <<"=">> \o ToText(result)
    /\ replies' = replies + 1
    /\ pc' = "sent"
    /\ UNCHANGED <<tokens, expression, RPN, result, error, tokens0>>

\* Lines 217-219: room.send(e.message).
Catch ==
    /\ pc = "catch"
    /\ sent' = error
    /\ replies' = replies + 1
    /\ pc' = "sent"
    /\ UNCHANGED <<tokens, expression, RPN, result, error, tokens0>>

\* The handler has returned and the room delivers the bot's own message to
\* it like any other (lines 204-210): a text that starts with 'calc ' is
\* taken for a command, any other is ignored and the room is quiet again.
Echo ==
    /\ pc = "sent"
    /\ IF IndexOf(sent, Calc) = 0
       THEN /\ expression' = RemoveFirst(sent, Calc)
            /\ pc' = "read"
            /\ tokens0' = tokens
            /\ UNCHANGED replies
       ELSE /\ expression' = <<>>
            /\ pc' = "idle"
            /\ tokens0' = <<>>
            /\ replies' = 0
    /\ RPN' = <<>>
    /\ result' = Undefined
    /\ error' = <<>>
    /\ sent' = <<>>
    /\ UNCHANGED tokens

Next ==
    \/ pc = "idle" /\ \E e \in Expressions(tokens) : Message(Calc \o e)
    \/ pc = "idle" /\ \E text \in OtherTexts : Ignore(text)
    \/ Read
    \/ ShuntingYard
    \/ EvaluateRPN
    \/ Send
    \/ Catch
    \/ Echo

Spec == Init /\ [][Next]_vars

(***************************************************************************)
(* The handler entered for the message 'calc ' while the token buffer holds *)
(* what earlier failed reads have left in it: read adds nothing and        *)
(* shuntingYard converts the buffer as it is.  Every sequence of single    *)
(* tokens is such a buffer (each request 'calc 2+a', 'calc +2a', 'calc (+a' *)
(* ... appends one token and fails).                                       *)
(***************************************************************************)
OperatorTokens == {<<"+">>, <<"-">>, <<"*">>, <<"/">>, <<"^">>}

YardTokens == {<<"2">>, <<"3">>, <<"(">>, <<")">>} \cup OperatorTokens

\* Longer buffers: every pair of operators between three numbers, bare and
\* with either pair of operands parenthesised, in infix and in postfix
\* order, and some with a parenthesis that has no partner.
YardCorpus ==
    UNION { { <<<<"2">>, o1, <<"3">>, o2, <<"2">>>>,
              <<<<"(">>, <<"2">>, o1, <<"3">>, <<")">>, o2, <<"2">>>>,
              <<<<"2">>, o1, <<"(">>, <<"3">>, o2, <<"2">>, <<")">>>>,
              <<<<"2">>, <<"3">>, <<"2">>, o1, o2>>,
              <<<<"2">>, o1, <<"3">>, <<")">>, o2, <<"2">>>>,
              <<<<"2">>, o1, <<"(">>, <<"3">>, o2, <<"2">>>> }
            : o1, o2 \in OperatorTokens }

YardInputs ==
    UNION { [1..n -> YardTokens] : n \in 0..MaxTokens } \cup YardCorpus

InitYard ==
    /\ tokens \in YardInputs
    /\ tokens0 = tokens
    /\ pc = "read"
    /\ expression = <<>>
    /\ RPN = <<>>
    /\ result = Undefined
    /\ error = <<>>
    /\ sent = <<>>
    /\ replies = 0

NextYard ==
    \/ Read
    \/ ShuntingYard
    \/ EvaluateRPN
    \/ Send
    \/ Echo

SpecYard == InitYard /\ [][NextYard]_vars

(***************************************************************************)
(* Properties.                                                             *)
(***************************************************************************)
\* What read is given: the expression without its spaces.
Input == StripSpaces(expression)

\* The handler was entered with an empty token buffer.
Fresh == tokens0 = <<>>

\* The characters read accepts.
Accepted == Digits \cup {".", "+", "-", "*", "/", "(", ")", "^"}

\* The position of the first character of s that read does not accept, 0
\* when there is none.
FirstBad(s) ==
    IF \A i \in 1..Len(s) : s[i] \in Accepted THEN 0
    ELSE CHOOSE i \in 1..Len(s) :
            /\ s[i] \notin Accepted
            /\ \A j \in 1..(i - 1) : s[j] \in Accepted

\* The number of characters of the tokens of toks.
RECURSIVE Chars(_)
Chars(toks) == IF toks = <<>> THEN 0 ELSE Len(Head(toks)) + Chars(Tail(toks))

\* What the pipeline gives for the expression e on a calculator whose token
\* buffer is empty.
FreshOutcome(e) ==
    LET r == read(StripSpaces(e), <<>>) IN
    IF r.thrown THEN [error |-> FormatMessage, result |-> Undefined]
    ELSE [error |-> <<>>, result |-> evaluateRPN(shuntingYard(r.tokens).out)]

\* C1: the outcome the handler is about to report for an expression (the
\* result at line 216, the error message at line 218) is the outcome the
\* same expression has on a calculator whose token buffer is empty, whatever
\* requests were handled before.
C1_SameAsFresh ==
    pc \in {"send", "catch"} =>
        [error |-> error, result |-> result] = FreshOutcome(expression)

\* C4: while an expression with a character outside the accepted ones is
\* handled, the handler never gets past read: shuntingYard and evaluateRPN
\* have produced nothing, and once read has returned the handler is in its
\* catch block with the format error's message, which is what it sends,
\* read having stopped no later than the first such character (the tokens
\* it has added hold no more characters than precede it).
C4_FormatError ==
    (pc # "idle" /\ FirstBad(Input) # 0) =>
        /\ pc \in {"read", "catch", "sent"}
        /\ RPN = <<>>
        /\ result = Undefined
        /\ pc = "sent" => sent = FormatMessage
        /\ pc \in {"catch", "sent"} =>
              /\ error = FormatMessage
              /\ Len(tokens) >= Len(tokens0)
              /\ SubSeq(tokens, 1, Len(tokens0)) = tokens0
              /\ Chars(SubSeq(tokens, Len(tokens0) + 1, Len(tokens))) < FirstBad(Input)

\* C4's case: read has failed on a character that is not the first one.
C4_Witness ==
    /\ pc = "catch"
    /\ FirstBad(Input) > 2
    /\ FirstBad(Input) < Len(Input)
    /\ Len(tokens) > Len(tokens0)

\* C5: when read has failed, Calculator.tokens is what it was when the
\* handler was entered.
C5_NoPartialTokens == pc = "catch" => tokens = tokens0

(***************************************************************************)
(* Standard arithmetic, as the reference the pipeline is compared with:    *)
(* a precedence-climbing parser of the infix expressions over non-negative *)
(* integer literals, + - * / ^ and parentheses.  It accepts an expression  *)
(* only if every division in it is exact, no exponent is negative and      *)
(* every value stays within Limit.                                         *)
(***************************************************************************)
RefFail == [ok |-> FALSE, v |-> 0, i |-> 0]
RefOk(v, i) == [ok |-> TRUE, v |-> v, i |-> i]

RefPrec(op) == IF op \in {"+", "-"} THEN 2 ELSE IF op \in {"*", "/"} THEN 3 ELSE 4

RECURSIVE RefPower(_, _, _)
RefPower(a, e, acc) ==
    IF e = 0 \/ Abs(acc) > Limit THEN acc
    ELSE IF Abs(a) <= 1 THEN (IF a = -1 /\ e % 2 = 0 THEN 1 ELSE a)
    ELSE RefPower(a, e - 1, acc * a)

\* a op b, when it is an exact integer within Limit.
RefApply(op, a, b, i) ==
    LET v == CASE op = "+" -> a + b
               [] op = "-" -> a - b
               [] op = "*" -> a * b
               [] op = "/" -> IF b = 0 THEN 0 ELSE Sign(a) * Sign(b) * (Abs(a) \div Abs(b))
               [] OTHER -> IF b < 0 THEN 0 ELSE RefPower(a, b, 1)
        defined == CASE op = "/" -> b # 0 /\ Abs(a) % Abs(b) = 0
                     [] op = "^" -> b >= 0
                     [] OTHER -> TRUE
    IN  IF defined /\ Abs(v) <= Limit THEN RefOk(v, i) ELSE RefFail

\* The integer literal that starts at position i, acc being the value of
\* the digits before i.
RECURSIVE RefDigits(_, _, _)
RefDigits(s, i, acc) ==
    IF acc > Limit THEN RefFail
    ELSE IF i <= Len(s) /\ s[i] \in Digits
    THEN RefDigits(s, i + 1, acc * 10 + DigitVal(s[i]))
    ELSE RefOk(acc, i)

RECURSIVE RefExpr(_, _, _)
RECURSIVE RefClimb(_, _, _, _)

\* A literal or a parenthesised expression at position i.
RefAtom(s, i) ==
    IF i > Len(s) THEN RefFail
    ELSE IF s[i] = "("
    THEN LET r == RefExpr(s, i + 1, 2) IN
         IF r.ok /\ r.i <= Len(s) /\ s[r.i] = ")" THEN RefOk(r.v, r.i + 1) ELSE RefFail
    ELSE IF s[i] \in Digits THEN RefDigits(s, i, 0)
    ELSE RefFail

\* An expression at position i whose operators all bind at least as
\* tightly as minPrec.
RefExpr(s, i, minPrec) ==
    LET a == RefAtom(s, i) IN
    IF a.ok THEN RefClimb(s, a.v, a.i, minPrec) ELSE RefFail

\* The operators that follow the operand lhs, which ends before position i:
\* + - * / take a right operand that binds tighter, ^ one that binds as
\* tightly.
RefClimb(s, lhs, i, minPrec) ==
    IF i > Len(s) \/ s[i] \notin {"+", "-", "*", "/", "^"} THEN RefOk(lhs, i)
    ELSE IF RefPrec(s[i]) < minPrec THEN RefOk(lhs, i)
    ELSE LET op == s[i]
             r == RefExpr(s, i + 1, IF op = "^" THEN RefPrec(op) ELSE RefPrec(op) + 1)
         IN  IF ~r.ok THEN RefFail
             ELSE LET v == RefApply(op, lhs, r.v, r.i) IN
                  IF v.ok THEN RefClimb(s, v.v, v.i, minPrec) ELSE RefFail

\* s is a well-formed expression of the reference grammar.
WellFormed(s) == LET r == RefExpr(s, 1, 2) IN r.ok /\ r.i = Len(s) + 1

RefValue(s) == RefExpr(s, 1, 2).v

\* C2: on a calculator entered with an empty buffer, the result of a
\* well-formed expression is its value in standard arithmetic.
C2_StandardArithmetic ==
    (pc = "send" /\ Fresh /\ WellFormed(Input)) =>
        ToNumber(result) = Frac(RefValue(Input), 1)

\* The operator tokens and the opening parenthesis.
OperatorOrOpen == {<<"+">>, <<"-">>, <<"*">>, <<"/">>, <<"^">>, <<"(">>}

\* C3: a token of read that is a number with a leading '-' is the first
\* token of the expression or follows an operator or an opening
\* parenthesis; it never follows a number or a closing parenthesis.
C3_MinusSign ==
    (pc = "shunt" /\ Fresh) =>
        \A j \in 1..Len(tokens) :
            (isNumber(tokens[j]) /\ tokens[j][1] = "-") =>
                (j = 1 \/ tokens[j - 1] \in OperatorOrOpen)

\* C6: the tokens read has produced from an empty buffer hold no two
\* adjacent numbers and no two adjacent binary operators.
C6_Alternation ==
    (pc = "shunt" /\ Fresh) =>
        \A j \in 1..(Len(tokens) - 1) :
            /\ ~(isNumber(tokens[j]) /\ isNumber(tokens[j + 1]))
            /\ ~(IsOperatorToken(tokens[j]) /\ IsOperatorToken(tokens[j + 1]))

\* The parentheses of s match.
Depth(s, i) ==
    Cardinality({j \in 1..i : s[j] = "("}) - Cardinality({j \in 1..i : s[j] = ")"})

Balanced(s) == Depth(s, Len(s)) = 0 /\ \A i \in 1..Len(s) : Depth(s, i) >= 0

\* A numeric outcome: a numeric string or a number, not NaN or undefined.
Numeric(v) == v.k \in {"str", "num", "real", "inf"}

\* C7: the result the handler is about to send for an expression with
\* unbalanced parentheses is a numeric value (the handler sends a result
\* only when no error was raised).
C7_UnbalancedOutcome ==
    (pc = "send" /\ Fresh /\ ~Balanced(Input)) => Numeric(result)

\* C8: the handler is never about to send the result of an evaluateRPN call
\* in which an operator was processed with fewer than two values on the
\* stack: such a call ends in an error.
C8_StackUnderflow == ~(pc = "send" /\ EvalRun(RPN).underflow)

\* C9: evaluateRPN has returned a result only if exactly one value was on
\* the stack when all the tokens had been consumed.
C9_ExactlyOneValue == pc = "send" => Len(EvalRun(RPN).stack) = 1

\* s is a numeric literal: an optional '-', then digits with at most one
\* decimal point.
ValidLiteral(s) ==
    LET u == IF s # <<>> /\ s[1] = "-" THEN Tail(s) ELSE s IN
    /\ \A i \in 1..Len(u) : u[i] \in Digits \cup {"."}
    /\ Cardinality({i \in 1..Len(u) : u[i] = "."}) <= 1
    /\ \E i \in 1..Len(u) : u[i] \in Digits

\* The digits of s read as one integer, and the number of digits after the
\* decimal point.
RECURSIVE DigitsValue(_)
DigitsValue(s) ==
    IF s = <<>> THEN 0
    ELSE LET front == SubSeq(s, 1, Len(s) - 1)
             c == s[Len(s)]
         IN  IF c \in Digits THEN DigitsValue(front) * 10 + DigitVal(c)
             ELSE DigitsValue(front)

FractionDigits(s) ==
    IF \E i \in 1..Len(s) : s[i] = "."
    THEN Len(s) - (CHOOSE i \in 1..Len(s) : s[i] = ".")
    ELSE 0

RECURSIVE TenTo(_)
TenTo(k) == IF k = 0 THEN 1 ELSE 10 * TenTo(k - 1)

\* The number v is the value of the literal s.
IsValueOf(v, s) ==
    /\ v.k = "num"
    /\ v.n * TenTo(FractionDigits(s))
         = (IF s[1] = "-" THEN -1 ELSE 1) * DigitsValue(s) * v.d

\* C10: for an expression that is one numeric literal, on a calculator
\* entered with an empty buffer, read does not fail and yields the literal
\* as its only token, shuntingYard yields that token alone and empties the
\* buffer, and evaluateRPN returns the token, whose numeric value (when
\* within Limit) is the literal's.
C10_Literal ==
    (Fresh /\ ValidLiteral(Input)) =>
        /\ pc # "catch"
        /\ pc = "shunt" => tokens = <<Input>>
        /\ pc \in {"eval", "send"} => RPN = <<Input>>
        /\ pc = "send" =>
              /\ result = Str(Input)
              /\ (DigitsValue(Input) <= Limit /\ TenTo(FractionDigits(Input)) <= Limit)
                    => IsValueOf(ToNumber(result), Input)

\* C10's case: a negative literal with a decimal point has been evaluated.
C10_Witness ==
    /\ pc = "send"
    /\ Fresh
    /\ ValidLiteral(Input)
    /\ Len(Input) >= 4
    /\ Input[1] = "-"
    /\ FractionDigits(Input) >= 1

\* The tokens of toks written one after the other.
RECURSIVE Concat(_)
Concat(toks) == IF toks = <<>> THEN <<>> ELSE Head(toks) \o Concat(Tail(toks))

\* s holds a decimal point that follows another one with nothing but digits
\* in between: a second point in the same literal.
SecondPoint(s) ==
    \E i, j \in 1..Len(s) :
        /\ i < j
        /\ s[i] = "." /\ s[j] = "."
        /\ \A q \in (i + 1)..(j - 1) : s[q] \in Digits

\* C11: when read has accepted an input on an empty buffer, the
\* concatenation of its tokens is accepted by read again and gives the same
\* tokens; it is the input itself unless some literal of the input holds a
\* second decimal point.
C11_RoundTrip ==
    (pc = "shunt" /\ Fresh) =>
        LET again == read(Concat(tokens), <<>>) IN
        /\ ~again.thrown
        /\ again.tokens = tokens
        /\ ~SecondPoint(Input) => Concat(tokens) = Input

\* C11's case: an input of several tokens, one with a second decimal point.
C11_Witness ==
    /\ pc = "shunt"
    /\ Fresh
    /\ SecondPoint(Input)
    /\ Len(tokens) >= 2
    /\ Concat(tokens) # Input

\* t is one of + - * / ( ) ^, or an optional '-' followed by digits and at
\* most one decimal point.
PureToken(t) ==
    \/ Len(t) = 1 /\ t[1] \in {"+", "-", "*", "/", "(", ")", "^"}
    \/ LET u == IF t[1] = "-" THEN Tail(t) ELSE t IN
       /\ u # <<>>
       /\ \A i \in 1..Len(u) : u[i] \in Digits \cup {"."}
       /\ Cardinality({i \in 1..Len(u) : u[i] = "."}) <= 1

\* C15: every token read has put into the buffer is one operator or
\* parenthesis character, or a numeric literal.
C15_PureTokens ==
    pc = "shunt" => \A j \in 1..Len(tokens) : PureToken(tokens[j])

\* s without its decimal points other than the first.
RECURSIVE OnePoint(_, _)
OnePoint(s, seen) ==
    IF s = <<>> THEN <<>>
    ELSE IF Head(s) = "."
    THEN (IF seen THEN <<>> ELSE <<".">>) \o OnePoint(Tail(s), TRUE)
    ELSE <<Head(s)>> \o OnePoint(Tail(s), seen)

\* C16: no token of the buffer ever holds more than one decimal point; and
\* an input of digits and decimal points only, read on an empty buffer, is
\* accepted and gives the single token made of its digits and its first
\* point.
C16_OnePoint ==
    /\ \A j \in 1..Len(tokens) :
          Cardinality({i \in 1..Len(tokens[j]) : tokens[j][i] = "."}) <= 1
    /\ (Fresh /\ Input # <<>> /\ \A i \in 1..Len(Input) : Input[i] \in Digits \cup {"."}) =>
          /\ pc # "catch"
          /\ pc = "shunt" => tokens = <<OnePoint(Input, FALSE)>>

\* C16's case: digits follow the second decimal point of a literal.
C16_Witness ==
    /\ pc = "shunt"
    /\ Fresh
    /\ \A i \in 1..Len(Input) : Input[i] \in Digits \cup {"."}
    /\ Cardinality({i \in 1..Len(Input) : Input[i] = "."}) >= 2
    /\ Input[Len(Input)] \in Digits
    /\ Len(tokens) = 1
    /\ Len(tokens[1]) < Len(Input)

(***************************************************************************)
(* The postfix form of a token sequence, as the reference shuntingYard is  *)
(* compared with: the same precedence-climbing parser, on tokens, giving   *)
(* for every operator its left operand's postfix form, its right operand's *)
(* and then the operator.                                                  *)
(***************************************************************************)
PfFail == [ok |-> FALSE, out |-> <<>>, i |-> 0]
PfOk(out, i) == [ok |-> TRUE, out |-> out, i |-> i]

RECURSIVE PfExpr(_, _, _)
RECURSIVE PfClimb(_, _, _, _)

PfAtom(t, i) ==
    IF i > Len(t) THEN PfFail
    ELSE IF t[i] = <<"(">>
    THEN LET r == PfExpr(t, i + 1, 2) IN
         IF r.ok /\ r.i <= Len(t) /\ t[r.i] = <<")">> THEN PfOk(r.out, r.i + 1) ELSE PfFail
    ELSE IF ValidLiteral(t[i]) THEN PfOk(<<t[i]>>, i + 1)
    ELSE PfFail

PfExpr(t, i, minPrec) ==
    LET a == PfAtom(t, i) IN
    IF a.ok THEN PfClimb(t, a.out, a.i, minPrec) ELSE PfFail

PfClimb(t, lhs, i, minPrec) ==
    IF i > Len(t) \/ t[i] \notin OperatorTokens THEN PfOk(lhs, i)
    ELSE IF RefPrec(t[i][1]) < minPrec THEN PfOk(lhs, i)
    ELSE LET op == t[i][1]
             r == PfExpr(t, i + 1, IF op = "^" THEN RefPrec(op) ELSE RefPrec(op) + 1)
         IN  IF ~r.ok THEN PfFail
             ELSE PfClimb(t, lhs \o r.out \o <<t[i]>>, r.i, minPrec)

\* t is a well-formed infix expression.
WellFormedTokens(t) == LET r == PfExpr(t, 1, 2) IN r.ok /\ r.i = Len(t) + 1

PostfixOf(t) == PfExpr(t, 1, 2).out

\* C12: shuntingYard turns a buffer that is a well-formed infix expression
\* into its postfix form under the precedences + - < * / < ^, with ^ alone
\* grouping to the right.
C12_Postfix ==
    [][(pc = "shunt" /\ WellFormedTokens(tokens)) => RPN' = PostfixOf(tokens)]_vars

\* C12's case: a well-formed buffer of three operands, two of them in
\* parentheses, has been converted.
C12_Witness ==
    /\ pc = "eval"
    /\ Input = <<>>
    /\ WellFormedTokens(tokens0)
    /\ Len(tokens0) = 7
    /\ Len(RPN) = 5
    /\ RPN[5] = <<"^">>

\* The number of '(' tokens less the number of ')' tokens among the first i
\* tokens of t.
RECURSIVE TokenDepth(_, _)
TokenDepth(t, i) ==
    IF i = 0 THEN 0
    ELSE TokenDepth(t, i - 1)
            + (IF t[i] = <<"(">> THEN 1 ELSE IF t[i] = <<")">> THEN -1 ELSE 0)

BalancedTokens(t) ==
    TokenDepth(t, Len(t)) = 0 /\ \A i \in 1..Len(t) : TokenDepth(t, i) >= 0

IsParen(token) == token \in {<<"(">>, <<")">>}

HasParen(t) == \E j \in 1..Len(t) : IsParen(t[j])

\* The ')' at position k of t has no '(' before it to close.
Unmatched(t, k) ==
    /\ t[k] = <<")">>
    /\ BalancedTokens(SubSeq(t, 1, k - 1))

\* C13: shuntingYard returns without error; its output for a buffer with
\* balanced parentheses holds no parenthesis; and at a ')' with no '(' on
\* the stack everything stacked so far goes to the output and conversion
\* goes on with the tokens that follow, i.e. the output is the conversion
\* of what precedes the ')' followed by the conversion of what follows it.
C13_CloseParen ==
    [][pc = "shunt" =>
        /\ pc' = "eval" /\ error' = <<>>
        /\ BalancedTokens(tokens) => ~HasParen(RPN')
        /\ \A k \in 1..Len(tokens) :
              Unmatched(tokens, k) =>
                 RPN' = shuntingYard(SubSeq(tokens, 1, k - 1)).out
                           \o shuntingYard(SubSeq(tokens, k + 1, Len(tokens))).out]_vars

\* C13's cases: a converted buffer whose ')' closes a '(' with operators
\* above it, and one whose ')' finds operators but no '(' on the stack.
C13_Witness ==
    /\ pc = "eval"
    /\ Input = <<>>
    /\ \/ /\ BalancedTokens(tokens0)
          /\ \E k \in 3..Len(tokens0) :
                tokens0[k] = <<")">> /\ tokens0[k - 2] \in OperatorTokens
          /\ Len(RPN) = Len(tokens0) - 2
       \/ \E k \in 3..Len(tokens0) :
             /\ Unmatched(tokens0, k)
             /\ tokens0[k - 2] \in OperatorTokens
             /\ k < Len(tokens0)
             /\ Len(RPN) = Len(tokens0) - 1

(***************************************************************************)
(* Rational arithmetic for the comparison of evaluateRPN's results: a      *)
(* rational is a pair <<numerator, denominator>>, and a pair with the      *)
(* denominator 0 stands for no rational at all, or for one whose numbers   *)
(* are beyond Limit.                                                       *)
(***************************************************************************)
RatNone == <<0, 0>>

\* The pair, when both its numbers are within Limit.
Rat(n, d) == IF Abs(n) <= Limit /\ Abs(d) <= Limit THEN <<n, d>> ELSE RatNone

\* x op y with x the left operand, for the operators whose operands do not
\* commute; a power is taken for an integer exponent only.
RatApply(op, x, y) ==
    IF x[2] = 0 \/ y[2] = 0 THEN RatNone
    ELSE CASE op = <<"-">> -> Rat(x[1] * y[2] - y[1] * x[2], x[2] * y[2])
           [] op = <<"/">> -> Rat(x[1] * y[2], x[2] * y[1])
           [] op = <<"^">> ->
                IF y[1] % y[2] # 0 THEN RatNone
                ELSE LET e == y[1] \div y[2] IN
                     IF e >= 0 THEN Rat(RefPower(x[1], e, 1), RefPower(x[2], e, 1))
                     ELSE Rat(RefPower(x[2], -e, 1), RefPower(x[1], -e, 1))
           [] OTHER -> RatNone

\* The value of a token of digits.
RatOf(token) == <<DigitsValue(token), 1>>

\* The number v is the rational x.
IsRat(v, x) == v.k = "num" /\ v.n * x[2] = x[1] * v.d

NonCommuting == {<<"-">>, <<"/">>, <<"^">>}

PlainNumber(token) == token # <<>> /\ \A j \in 1..Len(token) : token[j] \in Digits

\* C14: for the postfix sequence a b op of two numbers and one of - / ^
\* evaluateRPN returns a op b, for a b op1 c op2 it returns (a op1 b) op2 c
\* and for a b c op1 op2 it returns a op2 (b op1 c), whenever that value
\* is a rational.
C14_OperandOrder ==
    (pc = "send" /\ Len(RPN) \in {3, 5}) =>
        LET n == Len(RPN)
            a == RatOf(RPN[1])
            b == RatOf(RPN[2])
            c == RatOf(RPN[IF n = 5 /\ PlainNumber(RPN[3]) THEN 3 ELSE n - 1])
            expected ==
                IF n = 3 THEN RatApply(RPN[3], a, b)
                ELSE IF PlainNumber(RPN[3])
                THEN RatApply(RPN[5], a, RatApply(RPN[4], b, c))
                ELSE RatApply(RPN[5], RatApply(RPN[3], a, b), c)
            shaped ==
                /\ PlainNumber(RPN[1]) /\ PlainNumber(RPN[2])
                /\ RPN[n] \in NonCommuting
                /\ n = 5 => /\ RPN[4] \in NonCommuting \/ RPN[3] \in NonCommuting
                            /\ PlainNumber(RPN[3]) \/ PlainNumber(RPN[4])
                            /\ PlainNumber(RPN[3]) => RPN[4] \in NonCommuting
                            /\ PlainNumber(RPN[4]) => RPN[3] \in NonCommuting
        IN  (shaped /\ expected[2] # 0) => IsRat(result, expected)

\* C14's case: a subtraction, a division or a power of two different
\* numbers has been evaluated, alone or as the left operand of another.
C14_Witness ==
    /\ pc = "send"
    /\ Len(RPN) = 5
    /\ PlainNumber(RPN[1]) /\ PlainNumber(RPN[2]) /\ RPN[1] # RPN[2]
    /\ RPN[3] = <<"-">>
    /\ PlainNumber(RPN[4])
    /\ RPN[5] = <<"/">>
    /\ result.k = "num" /\ result.n < 0 /\ result.d > 1

\* C17: whatever the buffer held, shuntingYard returns (no exception), and
\* from its return to the end of the request, and after it, the buffer is
\* empty.
C17_BufferDrained ==
    pc \in {"eval", "send", "idle"} => tokens = <<>> /\ error = <<>>

\* C17's case: shuntingYard has returned from a malformed buffer.
C17_Witness ==
    /\ pc = "eval"
    /\ Len(tokens0) = MaxTokens
    /\ ~BalancedTokens(tokens0)
    /\ \A j \in 1..Len(tokens0) : ~PlainNumber(tokens0[j])
    /\ tokens = <<>>

\* The number of elements of t equal to token.
Count(t, token) == Cardinality({j \in 1..Len(t) : t[j] = token})

\* t holds number tokens, operator tokens and parentheses only.
YardAlphabet(t) ==
    \A j \in 1..Len(t) : isNumber(t[j]) \/ IsOperatorToken(t[j]) \/ IsParen(t[j])

\* C18: for a buffer of numbers, operators and balanced parentheses the
\* output holds every number and operator token as often as the buffer, no
\* parenthesis and nothing else, and the numbers in the buffer's order.
C18_Permutation ==
    [][(pc = "shunt" /\ YardAlphabet(tokens) /\ BalancedTokens(tokens)) =>
        /\ \A j \in 1..Len(tokens) :
              ~IsParen(tokens[j]) => Count(RPN', tokens[j]) = Count(tokens, tokens[j])
        /\ Len(RPN') = Len(tokens) - Count(tokens, <<"(">>) - Count(tokens, <<")">>)
        /\ SelectSeq(RPN', isNumber) = SelectSeq(tokens, isNumber)]_vars

\* C18's case: a buffer of seven tokens with a pair of parentheses and two
\* different numbers has been converted to five tokens.
C18_Witness ==
    /\ pc = "eval"
    /\ BalancedTokens(tokens0) /\ HasParen(tokens0)
    /\ Len(tokens0) = 7
    /\ Len(RPN) = 5
    /\ RPN[5] = <<"+">> /\ RPN[4] = <<"*">>
    /\ Count(RPN, <<"2">>) = 2 /\ Count(RPN, <<"3">>) = 1

\* The characters of an expression that read accepts.
ReplyChars == Accepted \cup {" "}

\* The text is expression + '=' + result for an expression of ReplyChars.
IsAnswer(text) ==
    \E k \in 1..Len(text) :
        /\ text[k] = "="
        /\ \A j \in 1..(k - 1) : text[j] \in ReplyChars

\* The steps of a request that are still to come before its reply is in
\* the room.
StepsToReply ==
    CASE pc = "read" -> 4
      [] pc = "shunt" -> 3
      [] pc = "eval" -> 2
      [] pc \in {"send", "catch"} -> 1
      [] OTHER -> 0

\* C19: what the bot sends is the format-error message or an accepted
\* expression followed by '=', and does not start with 'calc '; an
\* evaluation is under way only for a message of the room's own (replies
\* is 0 until the reply); every step of a request brings its reply, the
\* only one, nearer; and after the reply is delivered to the handler the
\* room is quiet again, with no request under way.
C19_NoEchoLoop ==
    /\ [](/\ replies <= 1
          /\ pc \in {"read", "shunt", "eval", "send", "catch"} => replies = 0
          /\ pc = "sent" =>
                /\ replies = 1
                /\ IndexOf(sent, Calc) # 0
                /\ sent = FormatMessage \/ IsAnswer(sent))
    /\ [][/\ StepsToReply > 0 => StepsToReply' < StepsToReply
          /\ StepsToReply = 1 => pc' = "sent" /\ replies' = 1
          /\ pc = "sent" => pc' = "idle"]_vars

\* C19's case: the bot has answered a command whose expression itself
\* starts with 'calc '.
C19_Witness ==
    /\ pc = "sent"
    /\ IndexOf(expression, Calc) = 0
    /\ replies = 1
    /\ sent = FormatMessage

=============================================================================
